---- MODULE Spec2Model ----
(***************************************************************************)
(* Model of app_py.py, a Streamlit application that estimates an annual   *)
(* insurance charge with a pickled scikit-learn pipeline.                  *)
(*                                                                         *)
(* Streamlit executes the whole script once per "script run": when a       *)
(* session opens and after every widget interaction.  Each browser session *)
(* runs the script on its own thread, so script runs of different sessions *)
(* interleave.  The only state shared by the sessions is the               *)
(* st.cache_resource store behind load_pipeline() (lines 18-35).           *)
(*                                                                         *)
(* Fixed-point numbers: USD amounts are integers in 1/1000 USD, the        *)
(* exchange rate is in 1/100 INR per USD, so INR amounts are integers in   *)
(* 1/100000 INR.  A float is a record [finite, v]; finite = FALSE stands   *)
(* for nan/inf.                                                            *)
(*                                                                         *)
(* Environment assumptions: the artifact file does not change while the    *)
(* process lives (it is a file of the deployed repository); the pipeline   *)
(* is opaque and predict() either raises or returns one float, of any      *)
(* sign, possibly non-finite.                                              *)
(***************************************************************************)
EXTENDS Integers, FiniteSets, Sequences, TLC

\* ------------------------------------------------------------- bounds
NumSessions == 2
MaxRuns == 4

Sessions == 1..NumSessions

\* ---------------------------------------------------- program constants
\* line 15: USD_TO_INR_RATE = 83.50, in 1/100
USD_TO_INR_RATE == 8350
\* line 54: st.slider("Age (Years)", 18, 65, 30)
AGE_MIN == 18
AGE_MAX == 65
AGE_DEFAULT == 30
\* line 64: st.number_input("BMI", 15.0, 55.0, 25.0, step=0.1), in 1/10
BMI_MIN == 150
BMI_MAX == 550
BMI_DEFAULT == 250
\* line 67: st.slider("Number of Children", 0, 5, 0)
CHILDREN_MIN == 0
CHILDREN_MAX == 5

SexOptions == {"male", "female"}
SmokerOptions == {"no", "yes"}
RegionOptions == {"southeast", "southwest", "northeast", "northwest"}

DefaultWidgets ==
    [age |-> AGE_DEFAULT, sex |-> "male", bmi |-> BMI_DEFAULT,
     children |-> CHILDREN_MIN, smoker |-> "no", region |-> "southeast"]

\* The values the widgets of lines 54-74 hold when the button is clicked:
\* the defaults of a new session, or one widget moved away from its default
\* (a numeric widget to an end of its range, a select box to another option).
WidgetValues ==
    {DefaultWidgets}
    \cup {[DefaultWidgets EXCEPT !.age = a] : a \in {AGE_MIN, AGE_MAX}}
    \cup {[DefaultWidgets EXCEPT !.sex = x] : x \in SexOptions}
    \cup {[DefaultWidgets EXCEPT !.bmi = b] : b \in {BMI_MIN, BMI_MAX}}
    \cup {[DefaultWidgets EXCEPT !.children = c] : c \in {CHILDREN_MIN, CHILDREN_MAX}}
    \cup {[DefaultWidgets EXCEPT !.smoker = x] : x \in SmokerOptions}
    \cup {[DefaultWidgets EXCEPT !.region = x] : x \in RegionOptions}

\* The documented domain of a profile (the widgets' ranges).
InDomain(p) ==
    /\ p.age >= AGE_MIN /\ p.age <= AGE_MAX
    /\ p.bmi >= BMI_MIN /\ p.bmi <= BMI_MAX
    /\ p.children >= CHILDREN_MIN /\ p.children <= CHILDREN_MAX
    /\ p.sex \in SexOptions /\ p.smoker \in SmokerOptions
    /\ p.region \in RegionOptions

\* ------------------------------------------------------------ outcomes
\* The three st.error messages of the script (lines 27, 31, 141).
ArtifactNotFound == "Error: Model file not found"
ArtifactCorrupt == "Error loading model"
InferenceFailed == "An error occurred during prediction"
NoError == "none"

\* The artifact file medical_cost_stack.pkl (line 22).
ArtifactStates == {"ok", "absent", "corrupt"}

\* Python's None for the variable `stack`, and an empty cache entry.
None == 0

Float(x) == [finite |-> TRUE, v |-> x]
NaN == [finite |-> FALSE, v |-> 0]

\* What stack.predict(features_df)[0] may return (line 100), in 1/1000 USD.
PredictionValues == {Float(-2500), Float(0), Float(12347), NaN}

\* n / d rounded to the nearest integer, ties to even (d > 0).
RoundHalfEven(n, d) ==
    LET q == n \div d
        r == n % d
    IN  IF 2 * r < d THEN q
        ELSE IF 2 * r > d THEN q + 1
        ELSE IF q % 2 = 0 THEN q ELSE q + 1

\* f"{x:,.2f}" (lines 114, 121): x, of which `unit` make 1/100, shown in 1/100.
Format2f(x, unit) ==
    [finite |-> x.finite,
     cents |-> IF x.finite THEN RoundHalfEven(x.v, unit) ELSE 0]

\* line 103: prediction_inr = prediction_usd * USD_TO_INR_RATE
ConvertSum(usd, r) ==
    [finite |-> usd.finite, v |-> IF usd.finite THEN usd.v + r ELSE 0]

Convert(usd, r) ==
    [finite |-> usd.finite, v |-> IF usd.finite THEN usd.v * r ELSE 0]

\* What one script run has put on the page.
Blank ==
    [success |-> FALSE, metrics |-> FALSE, error |-> NoError,
     usd |-> Float(0), inr |-> Float(0),
     usd_text |-> Format2f(Float(0), 10), inr_text |-> Format2f(Float(0), 1000),
     rate_text |-> 0]

ErrorPage(kind) == [Blank EXCEPT !.error = kind]

\* The record of a call of stack.predict: n counts the calls made so far.
NoCall ==
    [n |-> 0, session |-> 0, instance |-> None, ok |-> FALSE, features |-> DefaultWidgets]

VARIABLES
    artifact,   \* state of the file medical_cost_stack.pkl
    cache,      \* st.cache_resource entry of load_pipeline: None or an instance
    lock,       \* holder of the cache's compute lock, 0 when free
    reads,      \* number of joblib.load calls so far
    runs,       \* number of script runs started so far
    pc,         \* per session: where its script run stands
    stack,      \* per session: the module variable `stack`
    rate,       \* per session: the module variable USD_TO_INR_RATE
    ui,         \* per session: what the last script run rendered
    lastCall    \* the last call of stack.predict, by any session

vars == <<artifact, cache, lock, reads, runs, pc, stack, rate, ui, lastCall>>

\* Lines 84-100: input_data, features_df and the call stack.predict(features_df)
\* made by session s on the instance its variable `stack` holds.
Call(n, s, ok, w) ==
    [n |-> n, session |-> s, instance |-> stack[s], ok |-> ok, features |-> w]

Init ==
    /\ artifact \in ArtifactStates
    /\ cache = None
    /\ lock = 0
    /\ reads = 0
    /\ runs = 0
    /\ pc = [s \in Sessions |-> "idle"]
    /\ stack = [s \in Sessions |-> None]
    /\ rate = [s \in Sessions |-> USD_TO_INR_RATE]
    /\ ui = [s \in Sessions |-> Blank]
    /\ lastCall = NoCall

\* ------------------------------------------------- start of a script run
\* Lines 1-15: a session opens, or a widget interaction reruns the script.
\* The run gets a fresh module namespace (stack unbound, the rate assigned
\* by line 15) and a fresh page.
Rerun(s) ==
    /\ pc[s] = "idle"
    /\ runs < MaxRuns
    /\ runs' = runs + 1
    /\ pc' = [pc EXCEPT ![s] = "lookup"]
    /\ stack' = [stack EXCEPT ![s] = None]
    /\ rate' = [rate EXCEPT ![s] = USD_TO_INR_RATE]
    /\ ui' = [ui EXCEPT ![s] = Blank]
    /\ UNCHANGED <<artifact, cache, lock, reads, lastCall>>

\* --------------------------------------- load_pipeline(), lines 18-35
\* @st.cache_resource, the call of line 35: the cache is read first without
\* the lock; a hit returns the cached instance.
CacheLookupHit(s) ==
    /\ pc[s] = "lookup"
    /\ cache # None
    /\ stack' = [stack EXCEPT ![s] = cache]
    /\ pc' = [pc EXCEPT ![s] = "body"]
    /\ UNCHANGED <<artifact, cache, lock, reads, runs, rate, ui, lastCall>>

\* A miss sends the caller to the cache's compute lock.
CacheLookupMiss(s) ==
    /\ pc[s] = "lookup"
    /\ cache = None
    /\ pc' = [pc EXCEPT ![s] = "wait"]
    /\ UNCHANGED <<artifact, cache, lock, reads, runs, stack, rate, ui, lastCall>>

\* The caller takes the compute lock and reads the cache again: another
\* caller may have filled it meanwhile.  Only a second miss runs the body
\* of load_pipeline.
AcquireLockNoRecheck(s) ==
    /\ pc[s] = "wait"
    /\ lock = 0
    /\ lock' = s
    /\ pc' = [pc EXCEPT ![s] = "load"]
    /\ UNCHANGED <<artifact, cache, reads, runs, stack, rate, ui, lastCall>>

AcquireLock(s) ==
    /\ pc[s] = "wait"
    /\ lock = 0
    /\ IF cache # None
       THEN /\ stack' = [stack EXCEPT ![s] = cache]
            /\ pc' = [pc EXCEPT ![s] = "body"]
            /\ lock' = lock
       ELSE /\ lock' = s
            /\ pc' = [pc EXCEPT ![s] = "load"]
            /\ stack' = stack
    /\ UNCHANGED <<artifact, cache, reads, runs, rate, ui, lastCall>>

\* Lines 24-25: joblib.load succeeds; the new instance is cached and
\* returned, the lock released.  Each load builds a new object, named here
\* by the number of the read that built it.
LoadOk(s) ==
    /\ pc[s] = "load"
    /\ artifact = "ok"
    /\ reads' = reads + 1
    /\ cache' = reads + 1
    /\ stack' = [stack EXCEPT ![s] = reads + 1]
    /\ lock' = 0
    /\ pc' = [pc EXCEPT ![s] = "body"]
    /\ UNCHANGED <<artifact, runs, rate, ui, lastCall>>

\* st.stop() taken away: load_pipeline returns None and the script goes on.
LoadFailsAndGoesOn(s, message) ==
    /\ reads' = reads + 1
    /\ ui' = [ui EXCEPT ![s] = ErrorPage(message)]
    /\ lock' = 0
    /\ pc' = [pc EXCEPT ![s] = "body"]
    /\ UNCHANGED <<artifact, cache, runs, stack, rate, lastCall>>

\* A load that fails: st.error(message), then st.stop() ends the script run.
\* Nothing is cached and the lock is released.
LoadFails(s, message) ==
    /\ reads' = reads + 1
    /\ ui' = [ui EXCEPT ![s] = ErrorPage(message)]
    /\ lock' = 0
    /\ pc' = [pc EXCEPT ![s] = "idle"]
    /\ UNCHANGED <<artifact, cache, runs, stack, rate, lastCall>>

\* The branch of line 26 taken away: the handler of line 30 reports it.
LoadNotFoundAsOther(s) ==
    /\ pc[s] = "load"
    /\ artifact = "absent"
    /\ LoadFails(s, ArtifactCorrupt)

\* Lines 26-29: except FileNotFoundError.
LoadNotFound(s) ==
    /\ pc[s] = "load"
    /\ artifact = "absent"
    /\ LoadFails(s, ArtifactNotFound)

\* Lines 30-32: except Exception.
LoadError(s) ==
    /\ pc[s] = "load"
    /\ artifact = "corrupt"
    /\ LoadFails(s, ArtifactCorrupt)

\* ------------------------------------------- the page, lines 37-154
\* Line 82: the button was not clicked in this run; the widgets and the
\* sidebar are drawn and the run ends.
NoClick(s) ==
    /\ pc[s] = "body"
    /\ pc' = [pc EXCEPT ![s] = "idle"]
    /\ UNCHANGED <<artifact, cache, lock, reads, runs, stack, rate, ui, lastCall>>

\* Lines 112-136: the two metrics and the formula box.
Rendered(page, usd, inr, r) ==
    [page EXCEPT !.metrics = TRUE, !.usd = usd, !.inr = inr,
                 !.usd_text = Format2f(usd, 10),
                 !.inr_text = Format2f(inr, 1000),
                 !.rate_text = r]

\* Lines 82-136 without an exception: the widget values w are put in a
\* one-row frame, the pipeline returns v, and the success box and the two
\* metrics are rendered.
PredictOk(s, w, v) ==
    /\ pc[s] = "body"
    /\ stack[s] # None
    /\ lastCall' = Call(lastCall.n + 1, s, TRUE, w)
    /\ ui' = [ui EXCEPT ![s] =
                Rendered([Blank EXCEPT !.success = TRUE], v, Convert(v, rate[s]), rate[s])]
    /\ pc' = [pc EXCEPT ![s] = "idle"]
    /\ UNCHANGED <<artifact, cache, lock, reads, runs, stack, rate>>

\* The success box of line 106 moved in front of the call of line 100.
PredictRaisesAfterSuccess(s, w) ==
    /\ pc[s] = "body"
    /\ lastCall' = Call(lastCall.n + 1, s, FALSE, w)
    /\ ui' = [ui EXCEPT ![s] = [ErrorPage(InferenceFailed) EXCEPT !.success = TRUE]]
    /\ pc' = [pc EXCEPT ![s] = "idle"]
    /\ UNCHANGED <<artifact, cache, lock, reads, runs, stack, rate>>

\* The handler of line 140 also dropping the cached pipeline.
PredictRaisesAndClears(s, w) ==
    /\ pc[s] = "body"
    /\ lastCall' = Call(lastCall.n + 1, s, FALSE, w)
    /\ ui' = [ui EXCEPT ![s] = ErrorPage(InferenceFailed)]
    /\ pc' = [pc EXCEPT ![s] = "idle"]
    /\ cache' = None
    /\ UNCHANGED <<artifact, lock, reads, runs, stack, rate>>

\* Lines 82-100 and 140-141: stack.predict raises (the pipeline rejects the
\* row, or stack is None); nothing of lines 103-136 runs, st.error reports it.
PredictRaises(s, w) ==
    /\ pc[s] = "body"
    /\ lastCall' = Call(lastCall.n + 1, s, FALSE, w)
    /\ ui' = [ui EXCEPT ![s] = ErrorPage(InferenceFailed)]
    /\ pc' = [pc EXCEPT ![s] = "idle"]
    /\ UNCHANGED <<artifact, cache, lock, reads, runs, stack, rate>>

Next ==
    \E s \in Sessions :
        \/ Rerun(s)
        \/ CacheLookupHit(s)
        \/ CacheLookupMiss(s)
        \/ AcquireLock(s)
        \/ LoadOk(s)
        \/ LoadNotFound(s)
        \/ LoadError(s)
        \/ NoClick(s)
        \/ \E w \in WidgetValues :
              \/ \E v \in PredictionValues : PredictOk(s, w, v)
              \/ PredictRaises(s, w)

Spec == Init /\ [][Next]_vars

\* ------------------------------------------------------------ properties
Loaded(s) == stack[s] # None
LoadErrors == {ArtifactNotFound, ArtifactCorrupt}
SuccessPage(s) == ui[s].success /\ ui[s].metrics /\ ui[s].error = NoError
FailurePage(s) == ~ui[s].success /\ ~ui[s].metrics /\ ui[s].error # NoError

\* C1: at most one caller is inside the body of load_pipeline at a time; and
\* when the artifact can be loaded, joblib.load runs at most once however the
\* callers' first calls interleave, the cache is filled by that one read, and
\* every caller that has returned from load_pipeline() holds the one cached
\* instance.
C1_SingleLoad ==
    /\ Cardinality({s \in Sessions : pc[s] = "load"}) <= 1
    /\ artifact = "ok" =>
          /\ reads <= 1
          /\ (cache # None) <=> (reads = 1)
          /\ \A s \in Sessions :
                /\ Loaded(s) => stack[s] = cache
                /\ pc[s] = "body" => Loaded(s)

\* A second caller missed the cache before the first load completed and is
\* still at the lock, while the first caller holds the loaded instance.
C1_Witness ==
    \E s, t \in Sessions :
        /\ s # t
        /\ pc[t] = "wait"
        /\ Loaded(s) /\ stack[s] = cache /\ reads = 1

\* C3 (as claimed): every amount shown by a successful request is finite and
\* not negative; a negative or non-finite result of the pipeline ends in an
\* error instead.
C3_ShownAmountNonNegative ==
    \A s \in Sessions :
        (ui[s].success \/ ui[s].metrics) => ui[s].usd.finite /\ ui[s].usd.v >= 0

\* C4: with the artifact file absent, every call of load_pipeline() ends in
\* the "model file not found" error and a stopped script run, never in the
\* error of the other load failures and never with a pipeline cached or
\* returned; a file that is present but fails to load ends in the other error.
C4_MissingArtifact ==
    /\ ArtifactNotFound # ArtifactCorrupt
    /\ [](artifact = "absent" =>
            /\ cache = None
            /\ \A s \in Sessions :
                  /\ ~Loaded(s)
                  /\ pc[s] # "body"
                  /\ ui[s].error \in {NoError, ArtifactNotFound})
    /\ [][\A s \in Sessions :
            (pc[s] = "load" /\ pc'[s] # "load") =>
               /\ artifact = "absent" =>
                     /\ ui'[s].error = ArtifactNotFound
                     /\ pc'[s] = "idle" /\ stack'[s] = None /\ cache' = None
               /\ artifact = "corrupt" =>
                     /\ ui'[s].error = ArtifactCorrupt
                     /\ pc'[s] = "idle" /\ stack'[s] = None /\ cache' = None]_vars

\* Two calls of load_pipeline() have ended with the file absent.
C4_Witness ==
    /\ artifact = "absent"
    /\ reads >= 2
    /\ \E s \in Sessions : ui[s].error = ArtifactNotFound /\ pc[s] = "idle"

\* C5 (as claimed): the artifact file is read at most once in the life of
\* the process, also when the first load failed.
C5_ReadAtMostOnce == reads <= 1

C7_FailureLeavesRegistry ==
    /\ [][(lastCall'.n # lastCall.n /\ ~lastCall'.ok) =>
            /\ cache' = cache /\ reads' = reads /\ lock' = lock
            /\ artifact' = artifact /\ stack' = stack]_vars
    /\ [](lastCall.n > 0 =>
            /\ cache # None /\ lastCall.instance = cache /\ reads = 1)

\* A request of session s failed, and a later request of another session,
\* with a profile inside the domains, reached the pipeline, on the cached
\* instance and with no second read.
C7_Witness ==
    \E s \in Sessions :
        /\ ui[s].error = InferenceFailed
        /\ lastCall.ok /\ lastCall.session # s
        /\ InDomain(lastCall.features)
        /\ lastCall.instance = cache /\ reads = 1
        /\ SuccessPage(lastCall.session)

\* C9: a successful request shows an INR amount equal to its USD amount times
\* the rate, next to that rate, and the rate is 83.50 in every state.
C9_ConversionLaw ==
    \A s \in Sessions :
        /\ rate[s] = USD_TO_INR_RATE
        /\ ui[s].metrics =>
              /\ ui[s].rate_text = USD_TO_INR_RATE
              /\ ui[s].inr.finite = ui[s].usd.finite
              /\ ui[s].usd.finite => ui[s].inr.v = ui[s].usd.v * USD_TO_INR_RATE

\* A request succeeded with 12.347 USD, shown as 1,030.97 INR.
C9_Witness ==
    \E s \in Sessions :
        /\ SuccessPage(s)
        /\ ui[s].usd = Float(12347) /\ ui[s].inr = Float(103097450)
        /\ ui[s].inr_text.cents = 103097

\* C10: a script run gets past load_pipeline() only with the cached, loaded
\* instance; a run whose load failed has stopped with no pipeline, no success
\* box and no amount; stack.predict is only ever called on a loaded instance,
\* and while nothing is loaded no call has been made and no amount is shown.
C10_LoadFailureBlocks ==
    /\ \A s \in Sessions :
          /\ pc[s] = "body" => Loaded(s) /\ stack[s] = cache
          /\ ui[s].error \in LoadErrors =>
                /\ pc[s] = "idle" /\ ~Loaded(s)
                /\ ~ui[s].success /\ ~ui[s].metrics
    /\ lastCall.n > 0 => lastCall.instance # None
    /\ cache = None =>
          /\ lastCall.n = 0
          /\ \A s \in Sessions : ~ui[s].success /\ ~ui[s].metrics

\* Every session has run the script, each run stopped at the load error.
C10_Witness ==
    /\ artifact = "corrupt"
    /\ \A s \in Sessions : ui[s].error = ArtifactCorrupt /\ pc[s] = "idle"
    /\ lastCall.n = 0
====
